---- MODULE Spec2Model ----
(***************************************************************************)
(* A model of the tabular Q-learning agent of src/agent.py (class Agent)   *)
(* and of pretty_print_state of src/utils.py.  The game engine (Jericho's  *)
(* FrotzEnv, self.game) is the external Oracle: it is modelled as a small  *)
(* nondeterministic world the agent only reaches through the calls the     *)
(* source makes (reset, step, get_state, get_valid_actions, game_over,     *)
(* victory, get_score, get_walkthrough).                                   *)
(*                                                                         *)
(* Strings that are canonicalized are sequences of one-character strings,  *)
(* so that pretty_print_state is computed character by character.  Values  *)
(* of the table are exact rationals <<numerator, denominator>>.            *)
(***************************************************************************)
EXTENDS Integers, Sequences, FiniteSets, TLC

VARIABLES
    env,            \* which Oracle (game file) the agent was constructed with
    pos,            \* the Oracle's live position
    score,          \* the Oracle's cumulative score (get_score)
    epsilon,        \* self.epsilon
    alpha,          \* self.alpha
    gamma,          \* self.gamma
    default_actions,\* self.default_actions
    V,              \* self.V: canonical state -> (action -> value)
    valid_actions,  \* self.valid_actions: canonical state -> list of actions
    pc,             \* which routine is running: idle / game / episode / demo / table
    todo,           \* learn_game: episodes still to run in the current call
    episodes,       \* completed learn_from_episode calls
    nsteps,         \* learn_from_action calls made so far
    mode,           \* demo_game: the mode of the running call ("" outside a call)
    i,              \* demo_game: the iteration counter i (0 outside a call)
    last,           \* what the most recent operation observed and returned
    enumCalls,      \* canonical state -> number of get_valid_actions() queries made for it
    lastPut,        \* <<state, action>> -> value of the most recent put_sa_value
    trace           \* the reset, step and put calls of the latest learn_from_episode, in order

vars == <<env, pos, score, epsilon, alpha, gamma, default_actions, V, valid_actions,
          pc, todo, episodes, nsteps, mode, i, last, enumCalls, lastPut, trace>>

-----------------------------------------------------------------------------
(* Bounds of the model. *)

\* learn_from_action calls explored in one behaviour of the maze
MaxSteps == 3
\* largest n_episodes passed to learn_game
MaxEpisodes == 2
\* longest single-path Oracle
MaxPathLen == 2
\* iterations of the loop of demo_game explored in one call
MaxDemoSteps == 2
\* longest string given to pretty_print_state on its own
MaxLen == 3

-----------------------------------------------------------------------------
(* Exact rational arithmetic for the table's values (Python floats). *)

Abs(n) == IF n < 0 THEN -n ELSE n

GCD[a \in Nat, b \in Nat] == IF b = 0 THEN a ELSE GCD[b, a % b]

\* the fraction n/d in lowest terms with a positive denominator; a function, so that
\* numerator and denominator are computed once
Lowest[n \in Int, d \in Int] ==
    LET g == GCD[Abs(n), Abs(d)]
        sgn == IF d < 0 THEN -1 ELSE 1
    IN  <<(sgn * n) \div g, (sgn * d) \div g>>
Rat(n, d) == Lowest[n, d]

Zero == Rat(0, 1)
One == Rat(1, 1)
Half == Rat(1, 2)
RInt(n) == Rat(n, 1)
RAdd(x, y) == Rat(x[1] * y[2] + y[1] * x[2], x[2] * y[2])
RSub(x, y) == Rat(x[1] * y[2] - y[1] * x[2], x[2] * y[2])
RMul(x, y) == Rat(x[1] * y[1], x[2] * y[2])
RLess(x, y) == x[1] * y[2] < y[1] * x[2]
RLeq(x, y) == x[1] * y[2] <= y[1] * x[2]
\* max() of a non-empty set of values
RMax(S) == CHOOSE x \in S : \A y \in S : RLeq(y, x)

-----------------------------------------------------------------------------
(* src/utils.py: pretty_print_state, on sequences of characters. *)

BSL == "\\"
SQ == "'"
DQ == "\""
SP == " "

\* state.replace('\\\'', '\''): every backslash-quote becomes a quote, left to right
RECURSIVE ReplaceEscapedQuote(_)
ReplaceEscapedQuote(s) ==
    IF Len(s) = 0 THEN <<>>
    ELSE IF Len(s) >= 2 /\ s[1] = BSL /\ s[2] = SQ
         THEN <<SQ>> \o ReplaceEscapedQuote(SubSeq(s, 3, Len(s)))
         ELSE <<s[1]>> \o ReplaceEscapedQuote(Tail(s))

\* re.sub(r'\\n|b\'|b"', ' ', state): backslash-n, b' and b" become one space each
RECURSIVE SubPattern(_)
SubPattern(s) ==
    IF Len(s) = 0 THEN <<>>
    ELSE IF Len(s) >= 2 /\ (\/ (s[1] = BSL /\ s[2] = "n")
                            \/ (s[1] = "b" /\ s[2] = SQ)
                            \/ (s[1] = "b" /\ s[2] = DQ))
         THEN <<SP>> \o SubPattern(SubSeq(s, 3, Len(s)))
         ELSE <<s[1]>> \o SubPattern(Tail(s))

RECURSIVE LStrip(_, _)
LStrip(s, chars) ==
    IF Len(s) > 0 /\ s[1] \in chars THEN LStrip(Tail(s), chars) ELSE s

RECURSIVE RStrip(_, _)
RStrip(s, chars) ==
    IF Len(s) > 0 /\ s[Len(s)] \in chars THEN RStrip(SubSeq(s, 1, Len(s) - 1), chars) ELSE s

\* str.strip(chars)
Strip(s, chars) == RStrip(LStrip(s, chars), chars)

pretty_print_state(state) ==
    Strip(Strip(Strip(SubPattern(ReplaceEscapedQuote(state)), {SQ}), {DQ}), {SP})

-----------------------------------------------------------------------------
(* The Oracle (self.game).  Three families of games:                       *)
(*   path: positions 0..len, one valid action "go" in each, position len   *)
(*         is a victory; reward PathReward(i) on the step out of i.  With  *)
(*         len = 1 this is Start --go, 10--> End.                          *)
(*   maze: five positions (3 is a victory, 4 a loss), moves decided by the *)
(*         action, any reward of Rewards on any step; positions 0 and 1    *)
(*         have the same canonical text; the enumeration of valid actions  *)
(*         may be empty and may differ between two queries.                *)
(*   loop: one position that is never a victory nor a loss; every step     *)
(*         stays there with reward 0.                                      *)

PathGames == {[kind |-> "path", len |-> n] : n \in 1..MaxPathLen}
MazeGame == [kind |-> "maze", len |-> 0]
LoopGame == [kind |-> "loop", len |-> 0]
Games == PathGames \cup {MazeGame, LoopGame}

RECURSIVE Xs(_)
Xs(k) == IF k = 0 THEN <<>> ELSE <<"x">> \o Xs(k - 1)

\* the text of str(self.game.get_state()[-1]) at position p
RawState(g, p) ==
    IF g.kind = "path"
    THEN <<"b", SQ>> \o Xs(p + 1) \o <<SQ>>
    ELSE IF g.kind = "loop"
    THEN <<"b", SQ, "x", SQ>>
    ELSE CASE p = 0 -> <<"x">>
           [] p = 1 -> <<"b", SQ, "x", SQ>>
           [] p = 2 -> <<"b", SQ, "x", BSL, "n", "x", SQ>>
           [] p = 3 -> <<"b", SQ, "n", SQ>>
           [] OTHER -> <<"b", DQ, "n", DQ>>

victory(g, p) ==
    CASE g.kind = "path" -> p = g.len
      [] g.kind = "maze" -> p = 3
      [] OTHER -> FALSE
game_over(g, p) ==
    CASE g.kind = "maze" -> p = 4
      [] OTHER -> FALSE

PathReward(p) == IF p = 0 THEN 10 ELSE p

Rewards == {-1, 0, 1}

\* where the maze goes from p on action a; a command the game does not understand
\* leaves the position alone
MazeMove(p, a) ==
    CASE p = 0 /\ a = "go" -> 1
      [] p = 0 /\ a = "n" -> 2
      [] p = 1 /\ a = "go" -> 3
      [] p = 1 /\ a = "n" -> 1
      [] p = 2 /\ a = "go" -> 4
      [] p = 2 /\ a = "n" -> 0
      [] OTHER -> p

\* self.game.step(action): the possible <<next position, reward>>
OracleStep(g, p, a) ==
    IF g.kind = "path"
    THEN IF p < g.len /\ a = "go" THEN {<<p + 1, PathReward(p)>>} ELSE {<<p, 0>>}
    ELSE IF g.kind = "loop"
    THEN {<<p, 0>>}
    ELSE {<<MazeMove(p, a), r>> : r \in Rewards}

\* self.game.get_valid_actions(): the lists the Oracle may enumerate at p
OracleValidActions(g, p) ==
    IF g.kind = "maze" THEN {<<>>, <<"go">>, <<"go", "n">>}
    ELSE {<<"go">>}

\* self.game.get_walkthrough()
RECURSIVE Gos(_)
Gos(k) == IF k = 0 THEN <<>> ELSE <<"go">> \o Gos(k - 1)
OracleWalkthrough(g) ==
    CASE g.kind = "path" -> Gos(g.len)
      [] g.kind = "maze" -> <<"go", "go">>
      [] OTHER -> <<"go">>

-----------------------------------------------------------------------------
(* src/agent.py: the helper methods. *)

\* Agent.get_state_pretty, with the Oracle at position p
get_state_pretty(g, p) == pretty_print_state(RawState(g, p))

\* get_state_pretty of every position, computed once
Positions(g) ==
    CASE g.kind = "path" -> 0..g.len
      [] g.kind = "maze" -> 0..4
      [] OTHER -> {0}
Canonical == [g \in Games |-> [p \in Positions(g) |-> get_state_pretty(g, p)]]

\* Agent.get_sa_value
get_sa_value(Vt, state, action) ==
    IF state \in DOMAIN Vt /\ action \in DOMAIN Vt[state]
    THEN Vt[state][action]
    ELSE Zero

\* put_sa_value as it would be if line 46 ran on every call: the state's row is started
\* afresh and only the action put last survives
put_sa_value_FreshRow(Vt, state, action, value) ==
    [s \in (DOMAIN Vt) \cup {state} |->
        IF s = state THEN [a \in {action} |-> value] ELSE Vt[s]]

\* Agent.put_sa_value: the table after the put
put_sa_value(Vt, state, action, value) ==
    LET row == IF state \in DOMAIN Vt THEN Vt[state] ELSE <<>>
        newrow == [a \in (DOMAIN row) \cup {action} |->
                      IF a = action THEN value ELSE row[a]]
    IN  [s \in (DOMAIN Vt) \cup {state} |-> IF s = state THEN newrow ELSE Vt[s]]

\* get_max_state_value as it would be if the maximum ran over the defaults too
\* (max(0, ...)): an action never put counts as 0
get_max_state_value_WithDefault(Vt, state) ==
    IF state \notin DOMAIN Vt
    THEN Zero
    ELSE RMax({Vt[state][a] : a \in DOMAIN Vt[state]} \cup {Zero})

\* Agent.get_max_state_value
get_max_state_value(Vt, state) ==
    IF state \notin DOMAIN Vt
    THEN Zero
    ELSE RMax({Vt[state][a] : a \in DOMAIN Vt[state]})

Range(seq) == {seq[k] : k \in DOMAIN seq}

\* line 31 as it would be without the membership test: the Oracle is asked on every call
MemoQueries_Always(cache, state) == TRUE

\* Agent.get_valid_actions_memo, line 31: the state has no entry, the Oracle is asked
MemoQueries(cache, state) == state \notin DOMAIN cache

\* get_valid_actions_memo as it would be without line 33: an empty enumeration is stored
get_valid_actions_memo_NoFallback(cache, state, enumerated, defaults) ==
    IF state \notin DOMAIN cache
    THEN [s \in (DOMAIN cache) \cup {state} |-> IF s = state THEN enumerated ELSE cache[s]]
    ELSE cache

\* Agent.get_valid_actions_memo: the cache after a call in canonical state `state`,
\* where `enumerated` is what get_valid_actions() answers if it is asked
get_valid_actions_memo(cache, state, enumerated, defaults) ==
    IF MemoQueries(cache, state)
    THEN LET available_actions == IF enumerated = <<>> THEN defaults ELSE enumerated
         IN  [s \in (DOMAIN cache) \cup {state} |->
                 IF s = state THEN available_actions ELSE cache[s]]
    ELSE cache

\* the enumerations a call may receive: one dummy when the Oracle is not asked
Enumerations(cache, g, p) ==
    IF MemoQueries(cache, Canonical[g][p]) THEN OracleValidActions(g, p) ELSE {<<>>}

\* the query counter after a memo call in `state`
CountQuery(calls, cache, state) ==
    IF MemoQueries(cache, state)
    THEN [s \in (DOMAIN calls) \cup {state} |->
             IF s = state THEN (IF s \in DOMAIN calls THEN calls[s] ELSE 0) + 1
             ELSE calls[s]]
    ELSE calls

\* Agent.get_best_action, line 62: max_val_actions
max_val_actions(Vt, available_actions, state) ==
    SelectSeq(available_actions,
              LAMBDA a : get_sa_value(Vt, state, a) = get_max_state_value(Vt, state))

\* get_best_action as it would be with max_val_actions[0] in place of random.choice:
\* ties go to the first action of the list
get_best_action_First(Vt, available_actions, state) ==
    IF max_val_actions(Vt, available_actions, state) = <<>> THEN {}
    ELSE {max_val_actions(Vt, available_actions, state)[1]}

\* Agent.get_best_action, line 63: random.choice(max_val_actions) may return any element
get_best_action(Vt, available_actions, state) ==
    Range(max_val_actions(Vt, available_actions, state))

\* Agent.learn_select_action, line 74: the outcomes of np.random.uniform(0, 1) < epsilon,
\* the draw being in [0, 1)
ExploreDraws(eps) ==
    IF RLeq(eps, Zero) THEN {FALSE}
    ELSE IF RLeq(One, eps) THEN {TRUE}
    ELSE {TRUE, FALSE}

\* line 75 as it would be if exploration drew from every command of the game instead
\* of the state's valid actions
explore_choices_AnyCommand(available_actions) == {"go", "n"}

\* Agent.learn_select_action, line 75: random.choice(available_actions)
explore_choices(available_actions) == Range(available_actions)

\* line 86 as it would be if the Oracle were stepped a second time with the same action
\* and the second answer were the one learnt from
StepOutcomes_Twice(g, p, a) ==
    UNION {{[pos |-> o2[1], reward |-> o2[2], gained |-> o1[2] + o2[2], steps |-> 2] :
               o2 \in OracleStep(g, o1[1], a)} : o1 \in OracleStep(g, p, a)}

\* Agent.learn_from_action, line 86: the one call self.game.step(action); where the
\* Oracle is afterwards, the reward returned, the score gained and the calls made
StepOutcomes(g, p, a) ==
    {[pos |-> o[1], reward |-> o[2], gained |-> o[2], steps |-> 1] :
         o \in OracleStep(g, p, a)}

\* Agent.learn_from_action, line 87: the key under which the next state is looked up
\* is state_prime as step() returned it
NextStateKey(state_prime) == state_prime

\* line 91 as it would be without the last "- Q_sa": the old value is added to, not
\* moved towards the target
new_Q_sa_NoSubtract(Q_sa, reward, max_a_Q_sa, al, ga) ==
    RAdd(Q_sa, RMul(al, RAdd(RInt(reward), RMul(ga, max_a_Q_sa))))

\* line 91 as it would be if the learning rate were left out: the target replaces the
\* old value
new_Q_sa_NoAlpha(Q_sa, reward, max_a_Q_sa, al, ga) ==
    RAdd(RInt(reward), RMul(ga, max_a_Q_sa))

\* Agent.learn_from_action, line 91
new_Q_sa(Q_sa, reward, max_a_Q_sa, al, ga) ==
    RAdd(Q_sa, RMul(al, RSub(RAdd(RInt(reward), RMul(ga, max_a_Q_sa)), Q_sa)))

-----------------------------------------------------------------------------
(* The agent as a state machine. *)

Alphas == {Zero, Half, One}
Gammas == {Zero, Half, One}
Epsilons == {Zero, Half, One}
DefaultActionLists == {<<"n">>, <<"n", "go">>}

\* the learning and discount rates explored in the maze, as <<alpha, gamma>>; the
\* single-path games are explored with every rate of Alphas, Gammas and Epsilons
MazeRates == {<<Zero, One>>, <<Half, Half>>, <<One, Half>>, <<One, One>>}

\* the record kept of the most recent operation: its inputs, what the Oracle answered
\* and what it returned
NoOp == [op |-> "none", state |-> <<>>, action |-> "", best |-> "", Q_sa |-> Zero,
         reward |-> 0, prime |-> <<>>, ret |-> <<>>,
         memo |-> FALSE, asked |-> FALSE, enumerated |-> <<>>, avail |-> <<>>]

\* the record of an operation that called get_valid_actions_memo in `state`
MemoOp(op, state, enumerated) ==
    [NoOp EXCEPT !.op = op, !.state = state, !.memo = TRUE,
                 !.asked = MemoQueries(valid_actions, state),
                 !.enumerated = enumerated,
                 !.avail = get_valid_actions_memo(valid_actions, state, enumerated,
                                                  default_actions)[state]]

\* Agent.__init__
Init ==
    /\ env \in Games
    /\ pos = 0
    /\ score = 0
    /\ epsilon \in Epsilons
    /\ alpha \in Alphas
    /\ gamma \in Gammas
    /\ default_actions \in DefaultActionLists
    /\ (env.kind = "maze" => epsilon = Half /\ <<alpha, gamma>> \in MazeRates)
    /\ V = <<>>
    /\ valid_actions = <<>>
    /\ pc = "idle"
    /\ todo = 0
    /\ episodes = 0
    /\ nsteps = 0
    /\ mode = ""
    /\ i = 0
    /\ last = NoOp
    /\ enumCalls = <<>>
    /\ lastPut = <<>>
    /\ trace = <<>>

\* the loops of learn_from_episode and demo_game as they would be if only game_over()
\* were consulted
Terminal_GameOverOnly == game_over(env, pos)

\* lines 97 and 124: the loop condition `not game_over() and not victory()` is false
Terminal == game_over(env, pos) \/ victory(env, pos)

config == <<env, epsilon, alpha, gamma, default_actions>>
demo == <<mode, i>>
learning == <<todo, episodes, nsteps>>
oracle == <<pos, score>>
table == <<V, lastPut, trace>>
memo == <<valid_actions, enumCalls>>

\* Agent.learn_game is called with n_episodes = n
LearnGameCall(n) ==
    /\ pc = "idle"
    /\ episodes + n <= MaxEpisodes
    /\ pc' = "game"
    /\ todo' = n
    /\ last' = [NoOp EXCEPT !.op = "learn_game"]
    /\ UNCHANGED <<config, oracle, table, memo, episodes, nsteps, demo>>

\* Agent.learn_from_episode, line 96: self.game.reset()
LearnFromEpisodeReset ==
    /\ pc = "game"
    /\ todo > 0
    /\ pos' = 0
    /\ score' = 0
    /\ pc' = "episode"
    /\ last' = [NoOp EXCEPT !.op = "reset"]
    /\ trace' = <<"reset">>
    /\ UNCHANGED <<config, V, lastPut, memo, learning, demo>>

\* the table's last-put record after put_sa_value(state, action, value)
RecordPut(puts, state, action, value) ==
    [k \in (DOMAIN puts) \cup {<<state, action>>} |->
        IF k = <<state, action>> THEN value ELSE puts[k]]

\* the learn_from_action calls explored in one behaviour: as many as MaxEpisodes
\* episodes of a single-path game take, MaxSteps in the other games
StepBudget == IF env.kind = "path" THEN env.len * MaxEpisodes ELSE MaxSteps

RECURSIVE Steps(_)
Steps(k) == IF k = 0 THEN <<>> ELSE <<"step">> \o Steps(k - 1)

\* Agent.learn_from_action, one iteration of the loop of learn_from_episode
LearnFromAction ==
    /\ pc = "episode"
    /\ ~Terminal
    /\ nsteps < StepBudget
    /\ LET state == Canonical[env][pos]
       IN  \E enumerated \in Enumerations(valid_actions, env, pos) :
           LET cache == get_valid_actions_memo(valid_actions, state, enumerated,
                                               default_actions)
               available_actions == cache[state]
               obs == MemoOp("learn", state, enumerated)
           IN  /\ valid_actions' = cache
               /\ enumCalls' = CountQuery(enumCalls, valid_actions, state)
               /\ IF get_best_action(V, available_actions, state) = {}
                  THEN \* random.choice([]) raises IndexError
                       /\ pc' = "error"
                       /\ last' = [obs EXCEPT !.op = "raise"]
                       /\ UNCHANGED <<config, oracle, table, learning, demo>>
                  ELSE \E best_action \in get_best_action(V, available_actions, state) :
                       \E explore \in ExploreDraws(epsilon) :
                       \E action \in (IF explore THEN explore_choices(available_actions)
                                      ELSE {best_action}) :
                       \E out \in StepOutcomes(env, pos, action) :
                       LET Q_sa == get_sa_value(V, state, action)
                           state_prime == RawState(env, out.pos)
                           reward == out.reward
                           max_a_Q_sa == get_max_state_value(V, NextStateKey(state_prime))
                           new == new_Q_sa(Q_sa, reward, max_a_Q_sa, alpha, gamma)
                       IN  /\ pos' = out.pos
                           /\ score' = score + out.gained
                           /\ V' = put_sa_value(V, state, action, new)
                           /\ lastPut' = RecordPut(lastPut, state, action, new)
                           /\ trace' = trace \o Steps(out.steps) \o <<"put">>
                           /\ nsteps' = nsteps + 1
                           /\ last' = [obs EXCEPT !.action = action, !.best = best_action,
                                                  !.Q_sa = Q_sa, !.reward = reward,
                                                  !.prime = state_prime]
                           /\ UNCHANGED <<config, pc, todo, episodes, demo>>

\* Agent.learn_from_episode returns (line 97 is false); learn_game counts the episode
LearnFromEpisodeReturn ==
    /\ pc = "episode"
    /\ Terminal
    /\ pc' = "game"
    /\ todo' = todo - 1
    /\ episodes' = episodes + 1
    /\ last' = [NoOp EXCEPT !.op = "episode_done"]
    /\ UNCHANGED <<config, oracle, table, memo, nsteps, demo>>

\* Agent.learn_game returns
LearnGameReturn ==
    /\ pc = "game"
    /\ todo = 0
    /\ pc' = "idle"
    /\ last' = [NoOp EXCEPT !.op = "game_done"]
    /\ UNCHANGED <<config, oracle, table, memo, learning, demo>>

Modes == {"random", "walkthrough", "agent", "human", "bogus"}
HumanInputs == {"go", "n", "I quit"}

\* Agent.demo_game is called: lines 118-123
DemoGameCall(m) ==
    /\ pc = "idle"
    /\ pos' = 0
    /\ score' = 0
    /\ mode' = m
    /\ i' = 0
    /\ pc' = "demo"
    /\ last' = [NoOp EXCEPT !.op = "demo_game"]
    /\ UNCHANGED <<config, learning, table, memo>>

\* line 130 as it would be with walkthrough_actions[i + 1]
walkthrough_index_Next(iter) == iter + 2

\* demo_game, line 130: walkthrough_actions[i] in iteration `iter`, as an index into
\* the sequence OracleWalkthrough, which starts at 1
walkthrough_index(iter) == iter + 1

\* lines 157-161 as they would be if playback learnt from the reward of its step
DemoAdvance_Learns(obs, action, best) ==
    \E out \in OracleStep(env, pos, action) :
        /\ pos' = out[1]
        /\ score' = score + out[2]
        /\ i' = i + 1
        /\ V' = put_sa_value(V, obs.state, action, RInt(out[2]))
        /\ last' = [obs EXCEPT !.action = action, !.best = best, !.reward = out[2],
                               !.prime = RawState(env, out[1])]
        /\ UNCHANGED <<config, learning, lastPut, trace, pc, mode>>

\* demo_game, lines 157-161: the Oracle is stepped with `action`
DemoAdvance(obs, action, best) ==
    \E out \in OracleStep(env, pos, action) :
        /\ pos' = out[1]
        /\ score' = score + out[2]
        /\ i' = i + 1
        /\ last' = [obs EXCEPT !.action = action, !.best = best, !.reward = out[2],
                               !.prime = RawState(env, out[1])]
        /\ UNCHANGED <<config, learning, table, pc, mode>>

\* demo_game returns from inside the loop (lines 143, 151) or fails there
DemoLeave(obs, newpc, what) ==
    /\ pc' = newpc
    /\ mode' = ""
    /\ i' = 0
    /\ last' = [obs EXCEPT !.op = "demo_done", !.ret = what]
    /\ UNCHANGED <<config, learning, table, oracle>>

\* lines 140-143 as they would be if the input were compared with the quit phrase only
\* after line 157 had stepped the Oracle with it
DemoQuit_StepsFirst(obs) ==
    \E out \in OracleStep(env, pos, "I quit") :
        /\ pos' = out[1]
        /\ score' = score + out[2]
        /\ pc' = "idle"
        /\ mode' = ""
        /\ i' = 0
        /\ last' = [obs EXCEPT !.op = "demo_done", !.action = "I quit",
                               !.ret = <<"None", "printed", score + out[2]>>]
        /\ UNCHANGED <<config, learning, table>>

\* demo_game, lines 140-143: the input is the quit phrase; the score is printed and
\* the call returns None
DemoQuit(obs) ==
    DemoLeave([obs EXCEPT !.action = "I quit"], "idle", <<"None", "printed", score>>)

\* one iteration of the loop of demo_game, lines 124-161
DemoStep ==
    /\ pc = "demo"
    /\ ~Terminal
    /\ i < MaxDemoSteps
    /\ LET state == Canonical[env][pos]
           plain == [NoOp EXCEPT !.op = "demo", !.state = state]
       IN  CASE mode = "random" ->
                  \E enumerated \in Enumerations(valid_actions, env, pos) :
                  LET cache == get_valid_actions_memo(valid_actions, state, enumerated,
                                                      default_actions)
                  IN  /\ valid_actions' = cache
                      /\ enumCalls' = CountQuery(enumCalls, valid_actions, state)
                      /\ \E action \in Range(cache[state]) :
                             DemoAdvance(MemoOp("demo", state, enumerated), action, "")
             [] mode = "walkthrough" ->
                  /\ UNCHANGED memo
                  /\ IF walkthrough_index(i) \in DOMAIN OracleWalkthrough(env)
                     THEN DemoAdvance(plain, OracleWalkthrough(env)[walkthrough_index(i)],
                                      "")
                     ELSE DemoLeave(plain, "error", <<"IndexError", "walkthrough_actions[i]">>)
             [] mode = "agent" ->
                  \E enumerated \in Enumerations(valid_actions, env, pos) :
                  LET cache == get_valid_actions_memo(valid_actions, state, enumerated,
                                                      default_actions)
                  IN  /\ valid_actions' = cache
                      /\ enumCalls' = CountQuery(enumCalls, valid_actions, state)
                      /\ IF get_best_action(V, cache[state], state) = {}
                         THEN DemoLeave(MemoOp("demo", state, enumerated), "error",
                                        <<"IndexError", "random.choice">>)
                         ELSE \E action \in get_best_action(V, cache[state], state) :
                                  DemoAdvance(MemoOp("demo", state, enumerated), action,
                                              action)
             [] mode = "human" ->
                  \E enumerated \in Enumerations(valid_actions, env, pos) :
                  LET cache == get_valid_actions_memo(valid_actions, state, enumerated,
                                                      default_actions)
                  IN  /\ valid_actions' = cache
                      /\ enumCalls' = CountQuery(enumCalls, valid_actions, state)
                      /\ \E action \in HumanInputs :
                             IF action = "I quit"
                             THEN DemoQuit(MemoOp("demo", state, enumerated))
                             ELSE DemoAdvance(MemoOp("demo", state, enumerated), action, "")
             [] OTHER ->
                  /\ UNCHANGED memo
                  /\ DemoLeave(plain, "idle", <<"error_msg">>)

\* demo_game returns after the loop, lines 163-171
DemoGameReturn ==
    /\ pc = "demo"
    /\ Terminal
    /\ pc' = "idle"
    /\ mode' = ""
    /\ i' = 0
    /\ last' = [NoOp EXCEPT !.op = "demo_done", !.state = Canonical[env][pos],
                            !.ret = IF mode = "human" THEN <<"None", "printed", score>>
                                    ELSE <<"score", score>>]
    /\ UNCHANGED <<config, learning, table, memo, oracle>>

Next ==
    \/ \E n \in 1..MaxEpisodes : LearnGameCall(n)
    \/ LearnFromEpisodeReset
    \/ LearnFromAction
    \/ LearnFromEpisodeReturn
    \/ LearnGameReturn
    \/ \E m \in Modes : DemoGameCall(m)
    \/ DemoStep
    \/ DemoGameReturn

Spec == Init /\ [][Next]_vars

-----------------------------------------------------------------------------
(* The value table driven directly through its three methods. *)

TableStates == {<<"x">>, <<"x", SP, "x">>}
TableActions == {"go", "n"}
TableValues == {RInt(-2), RInt(-1), Zero, Half, RInt(3)}

InitTable ==
    /\ Init
    /\ env = MazeGame
    /\ <<alpha, gamma>> = <<One, One>>
    /\ default_actions = <<"n">>

\* a call of Agent.put_sa_value(state, action, value)
Put(state, action, value) ==
    /\ pc = "idle"
    /\ V' = put_sa_value(V, state, action, value)
    /\ lastPut' = RecordPut(lastPut, state, action, value)
    /\ last' = [NoOp EXCEPT !.op = "put", !.state = state, !.action = action,
                            !.ret = <<value>>]
    /\ UNCHANGED <<config, oracle, memo, learning, demo, pc, trace>>

\* a call of Agent.get_sa_value(state, action)
Get(state, action) ==
    /\ pc = "idle"
    /\ last' = [NoOp EXCEPT !.op = "get", !.state = state, !.action = action,
                            !.ret = <<get_sa_value(V, state, action)>>]
    /\ UNCHANGED <<config, oracle, table, memo, learning, demo, pc>>

\* a call of Agent.get_max_state_value(state)
MaxValue(state) ==
    /\ pc = "idle"
    /\ last' = [NoOp EXCEPT !.op = "max", !.state = state,
                            !.ret = <<get_max_state_value(V, state)>>]
    /\ UNCHANGED <<config, oracle, table, memo, learning, demo, pc>>

NextTable ==
    \/ \E s \in TableStates, a \in TableActions, v \in TableValues : Put(s, a, v)
    \/ \E s \in TableStates, a \in TableActions : Get(s, a)
    \/ \E s \in TableStates : MaxValue(s)

SpecTable == InitTable /\ [][NextTable]_vars

-----------------------------------------------------------------------------
(* Learning and playback under the scheduling of a running program: a loop  *)
(* that can take its next iteration, or return, does so.                    *)

\* every single-path game and the loop game at every rate; the maze at one
InitLive ==
    /\ Init
    /\ env = MazeGame => <<alpha, gamma>> = <<Half, Half>> /\ default_actions = <<"n", "go">>

SpecLive ==
    /\ InitLive
    /\ [][Next]_vars
    /\ WF_vars(LearnFromAction)
    /\ WF_vars(LearnFromEpisodeReturn)

-----------------------------------------------------------------------------
(* pretty_print_state applied, and applied again, to a string on its own. *)

Alphabet == {"b", "n", BSL, SQ, DQ, SP, "x"}

\* the strings over Alphabet of length k, and of length at most k
RECURSIVE StringsOfLen(_)
StringsOfLen(k) ==
    IF k = 0 THEN {<<>>}
    ELSE {<<c>> \o s : c \in Alphabet, s \in StringsOfLen(k - 1)}
RECURSIVE StringsUpTo(_)
StringsUpTo(k) == IF k = 0 THEN {<<>>} ELSE StringsOfLen(k) \cup StringsUpTo(k - 1)

\* an agent at rest, and a raw text x in hand
InitPretty ==
    /\ env = LoopGame /\ pos = 0 /\ score = 0
    /\ epsilon = Half /\ alpha = Half /\ gamma = Half
    /\ default_actions = <<"n">>
    /\ V = <<>> /\ valid_actions = <<>>
    /\ pc = "idle" /\ todo = 0 /\ episodes = 0 /\ nsteps = 0
    /\ mode = "" /\ i = 0
    /\ enumCalls = <<>> /\ lastPut = <<>> /\ trace = <<>>
    /\ \E x \in StringsUpTo(MaxLen) : last = [NoOp EXCEPT !.op = "raw", !.prime = x]

\* pretty_print_state(x)
Canonicalize ==
    /\ last.op = "raw"
    /\ last' = [last EXCEPT !.op = "pretty", !.state = pretty_print_state(last.prime)]
    /\ UNCHANGED <<config, oracle, table, memo, learning, demo, pc>>

\* pretty_print_state of the string pretty_print_state returned
CanonicalizeAgain ==
    /\ last.op = "pretty"
    /\ last' = [last EXCEPT !.op = "pretty_again",
                            !.ret = pretty_print_state(last.state)]
    /\ UNCHANGED <<config, oracle, table, memo, learning, demo, pc>>

NextPretty == Canonicalize \/ CanonicalizeAgain

SpecPretty == InitPretty /\ [][NextPretty]_vars

-----------------------------------------------------------------------------
(* Properties. *)

\* a step of the behaviour is one learn_from_action call that reached its put
LearnStep == last'.op = "learn" /\ nsteps' = nsteps + 1

\* every canonical state of the agent's game, and every action string in play
AllStates == {Canonical[env][p] : p \in DOMAIN Canonical[env]}
AllActions == {"go", "n"}

\* C1: one learn_from_action taken in canonical state s with action a, on which step()
\* returns (nextState, reward), leaves
\*   get(s, a) = Q_old + alpha * (reward + gamma * maxValue(canonicalize(nextState)) - Q_old),
\* the maximum being looked up under the canonical string of nextState.
C1_UpdateUsesCanonicalNextState ==
    [][LearnStep =>
          get_sa_value(V', last'.state, last'.action)
            = new_Q_sa(get_sa_value(V, last'.state, last'.action), last'.reward,
                       get_max_state_value(V, pretty_print_state(last'.prime)),
                       alpha, gamma)]_vars

\* the discounted sum r_p + gamma * r_(p+1) + ... of the rewards of a single-path game
RECURSIVE DiscountedReturn(_, _, _)
DiscountedReturn(g, p, ga) ==
    IF p >= g.len THEN Zero
    ELSE RAdd(RInt(PathReward(p)), RMul(ga, DiscountedReturn(g, p + 1, ga)))

\* C2: on a single-path game of length L with alpha = 1, once n >= L calls of
\* learn_from_episode have returned, get(s_p, a_p) is the discounted sum of the rewards
\* from p on, for every p and every epsilon.
C2_PathValuesConverge ==
    (env.kind = "path" /\ alpha = One /\ pc # "episode" /\ episodes >= env.len)
        => \A p \in 0..(env.len - 1) :
               get_sa_value(V, Canonical[env][p], "go") = DiscountedReturn(env, p, gamma)

TwoStateGame == [kind |-> "path", len |-> 1]

\* C3: with alpha = 1, a learn_from_action whose next state has no recorded action in
\* the table leaves get(s, a) equal to the reward, whatever gamma is; so on the game
\* Start --go, 10--> End, get(Start, "go") = 10 once an episode has been learnt.
C3_UnseenNextStateGivesReward ==
    [][/\ (LearnStep /\ alpha = One /\ pretty_print_state(last'.prime) \notin DOMAIN V)
            => get_sa_value(V', last'.state, last'.action) = RInt(last'.reward)
       /\ (env = TwoStateGame /\ alpha = One /\ episodes' >= 1)
            => get_sa_value(V', Canonical[env][0], "go") = RInt(10)]_vars

\* C3 witness: gamma = 1/2, one episode of the two-state game learnt, the value is 10
C3_Witness ==
    /\ env = TwoStateGame /\ alpha = One /\ gamma = Half /\ episodes = 1
    /\ last.op = "episode_done"
    /\ get_sa_value(V, Canonical[env][0], "go") = RInt(10)

\* C4: with alpha = 0 no learn_from_action changes get(s, a) of any pair, whatever the
\* reward.
C4_AlphaZeroChangesNothing ==
    [][alpha = Zero =>
          \A s \in AllStates, a \in AllActions :
              get_sa_value(V', s, a) = get_sa_value(V, s, a)]_vars

\* C4 witness: alpha = 0 and a second learning step has just received a reward
C4_Witness ==
    /\ alpha = Zero /\ last.op = "learn" /\ last.reward # 0 /\ nsteps >= 2
    /\ <<last.state, last.action>> \in DOMAIN lastPut

\* C5: every entry of the valid-action cache is a non-empty list, the list a
\* get_valid_actions_memo call returns is non-empty, and when the Oracle was asked
\* the entry stored and returned is the default list if it enumerated nothing and
\* its enumeration otherwise.
C5_CacheNeverEmpty ==
    /\ \A s \in DOMAIN valid_actions : valid_actions[s] # <<>>
    /\ last.memo =>
          /\ last.avail # <<>>
          /\ last.avail = valid_actions[last.state]
          /\ last.asked =>
                last.avail = IF last.enumerated = <<>> THEN default_actions
                             ELSE last.enumerated

\* C5 witness: the Oracle enumerated nothing and the two-action default list was stored
C5_Witness ==
    /\ last.memo /\ last.asked /\ last.enumerated = <<>>
    /\ default_actions = <<"n", "go">>
    /\ valid_actions[last.state] = <<"n", "go">>

\* C6: the Oracle's enumeration is asked only in a canonical state that has no cache
\* entry and at most once per canonical state; a call in a cached state returns the
\* stored list; no step of learning or playback changes or removes a stored entry.
C6_CachePopulatedOnce ==
    [][/\ \A s \in DOMAIN valid_actions :
             s \in DOMAIN valid_actions' /\ valid_actions'[s] = valid_actions[s]
       /\ enumCalls' # enumCalls => Canonical[env][pos] \notin DOMAIN valid_actions
       /\ \A s \in DOMAIN enumCalls' : enumCalls'[s] <= 1
       /\ (last'.memo /\ last'.state \in DOMAIN valid_actions)
             => ~last'.asked /\ last'.avail = valid_actions[last'.state]]_vars

\* C6 witness: a call hit the cache in a state whose entry is the default list, which
\* the Oracle would not enumerate if it were asked now
C6_Witness ==
    /\ last.memo /\ ~last.asked
    /\ last.op \in {"learn", "demo"}
    /\ last.avail = valid_actions[last.state]
    /\ last.avail \notin OracleValidActions(env, pos)

\* the pairs put so far
PutPairs == DOMAIN lastPut

\* C7: get(s, a) is the value of the most recent put(s, a, v), and 0 when there was
\* none, for an unseen state and for a state seen with other actions only; a get call
\* returns that value and leaves the table as it was.
C7_GetReturnsLastPut ==
    /\ \A s \in TableStates, a \in TableActions :
          get_sa_value(V, s, a) = IF <<s, a>> \in PutPairs THEN lastPut[<<s, a>>] ELSE Zero
    /\ last.op = "get" =>
          last.ret = <<IF <<last.state, last.action>> \in PutPairs
                       THEN lastPut[<<last.state, last.action>>] ELSE Zero>>

\* C7 witness: a get of a pair never put, in a state that has another action recorded
\* with a non-zero value
C7_Witness ==
    /\ last.op = "get" /\ last.ret = <<Zero>>
    /\ last.state \in DOMAIN V
    /\ last.action \notin DOMAIN V[last.state]
    /\ \E a \in DOMAIN V[last.state] : V[last.state][a] # Zero

\* the values most recently put for the actions of state s
PutValues(s) == {lastPut[k] : k \in {q \in PutPairs : q[1] = s}}

\* C8: maxValue(s) is 0 when no action was put for s and otherwise the maximum of the
\* current values of the actions put for s, the actions never put not counting as 0.
C8_MaxOverRecordedOnly ==
    /\ \A s \in TableStates :
          get_max_state_value(V, s) = IF PutValues(s) = {} THEN Zero ELSE RMax(PutValues(s))
    /\ last.op = "max" =>
          last.ret = <<IF PutValues(last.state) = {} THEN Zero
                       ELSE RMax(PutValues(last.state))>>

\* C8 witness: maxValue answered a negative number for a state with an action never put
C8_Witness ==
    /\ last.op = "max" /\ RLess(last.ret[1], Zero)
    /\ \E a \in TableActions : <<last.state, a>> \notin PutPairs

\* a step of the behaviour in which get_best_action returned
BestStep == last'.best # ""

\* the valid actions of state s, given as the list `available`, whose get-value is
\* maxValue(s)
MaxValued(Vt, available, s) ==
    {a \in Range(available) : get_sa_value(Vt, s, a) = get_max_state_value(Vt, s)}

\* C9: get_best_action returns an action of the cached valid-action list of the
\* current canonical state whose get-value equals maxValue of the state, and every
\* valid action with that value can be the one returned.
C9_BestActionAmongMaxValued ==
    [][BestStep =>
          /\ last'.best \in Range(valid_actions'[last'.state])
          /\ get_sa_value(V, last'.state, last'.best)
                = get_max_state_value(V, last'.state)
          /\ get_best_action(V, valid_actions'[last'.state], last'.state)
                = MaxValued(V, valid_actions'[last'.state], last'.state)]_vars

\* C9 witness: playback by the learned table returned the second of two valid actions
\* tied at the maximum
C9_Witness ==
    /\ last.op = "demo" /\ last.best # ""
    /\ Len(valid_actions[last.state]) = 2
    /\ last.best = valid_actions[last.state][2]
    /\ last.state \in DOMAIN V
    /\ get_sa_value(V, last.state, valid_actions[last.state][1])
          = get_max_state_value(V, last.state)
    /\ get_sa_value(V, last.state, valid_actions[last.state][2])
          = get_max_state_value(V, last.state)

\* C10: the action get_best_action returns has a get-value at least the get-value of
\* every action of the state's valid-action list, an action without entry counting 0.
C10_BestActionIsGreedy ==
    [][BestStep =>
          \A a \in Range(valid_actions'[last'.state]) :
              RLeq(get_sa_value(V, last'.state, a),
                   get_sa_value(V, last'.state, last'.best))]_vars

\* C11: playback never changes the value table: over every step of a demo_game call, in
\* every mode (random, walkthrough, agent, human, unrecognized), the table keeps its
\* states, actions and values, so it is the same at the return as at the call.
C11_PlaybackLeavesTable ==
    [][(pc = "demo" \/ pc' = "demo") => V' = V]_vars

\* C11 witness: playback by the learned table has stepped the Oracle and returned a
\* score, with values recorded in the table
C11_Witness ==
    /\ pc = "idle" /\ last.op = "demo_done" /\ last.ret = <<"score", score>>
    /\ score # 0
    /\ last.state \notin DOMAIN V
    /\ \E s \in DOMAIN V : \E a \in DOMAIN V[s] : V[s][a] # Zero

\* C12: a demo_game call with a mode that is none of random, walkthrough, agent, human
\* returns the error message and does nothing to the Oracle: no reset, no step, and the
\* Oracle's position and score are what they were before the call.
C12_UnknownModeTouchesNoOracle ==
    [][/\ (pc = "idle" /\ pc' = "demo" /\ mode' = "bogus")
            => pos' = pos /\ score' = score
       /\ (pc = "demo" /\ mode = "bogus")
            => pos' = pos /\ score' = score /\ last'.ret = <<"error_msg">>]_vars

\* C13: in human mode, when the input read is the quit phrase, the call ends at that
\* step: the Oracle is not stepped (its position and score stay), the score printed is
\* the Oracle's score after the steps already taken, and the call returns None.
C13_QuitEndsSession ==
    [][(pc = "demo" /\ mode = "human" /\ last'.action = "I quit")
          => /\ pos' = pos /\ score' = score
             /\ pc' = "idle" /\ mode' = ""
             /\ last'.op = "demo_done"
             /\ last'.ret = <<"None", "printed", score>>]_vars

\* C13 witness: the quit phrase was given after a step that had moved the Oracle and
\* changed its score
C13_Witness ==
    /\ last.op = "demo_done" /\ last.action = "I quit"
    /\ pos # 0 /\ score # 0
    /\ last.ret = <<"None", "printed", score>>

\* how often call c occurs in the trace tr
CountCalls(tr, c) == Cardinality({k \in DOMAIN tr : tr[k] = c})

\* C14: a learn_from_action makes one Oracle step and then one put, and the put is for
\* the canonical state the Oracle was in before the step; in a learn_from_episode the
\* Oracle is reset once, before any step, and there are as many steps as puts.
C14_OneStepOnePut ==
    [][/\ LearnStep =>
             /\ trace' = trace \o <<"step", "put">>
             /\ last'.state = Canonical[env][pos]
             /\ <<Canonical[env][pos], last'.action>> \in DOMAIN lastPut'
             /\ \A k \in DOMAIN lastPut' :
                    k # <<Canonical[env][pos], last'.action>>
                       => k \in DOMAIN lastPut /\ lastPut'[k] = lastPut[k]
       /\ (pc = "episode" /\ ~LearnStep) => pos' = pos /\ lastPut' = lastPut
       /\ pc' = "episode" =>
             /\ trace'[1] = "reset"
             /\ CountCalls(trace', "reset") = 1
             /\ CountCalls(trace', "step") = CountCalls(trace', "put")]_vars

\* C14 witness: the second step of a second episode
C14_Witness ==
    /\ pc = "episode" /\ episodes >= 1 /\ last.op = "learn"
    /\ trace = <<"reset", "step", "put", "step", "put">>

\* C15: pretty_print_state(pretty_print_state(x)) = pretty_print_state(x) for every
\* string x of at most MaxLen characters over b, n, backslash, the two quotes, space
\* and x.
C15_PrettyIdempotent ==
    last.op = "pretty_again" => last.ret = last.state

\* C16: on a single-path game, where every run ends in a victory, a running
\* learn_from_episode eventually returns; whenever learn_from_episode returns the
\* Oracle reports game over or victory; on the loop game, which never reports either,
\* learn_from_episode never returns.
C16_EpisodeReturnsWithOracle ==
    /\ (env.kind = "path" /\ pc = "episode") ~> (pc = "game")
    /\ [][(pc = "episode" /\ pc' # "episode")
             => game_over(env, pos') \/ victory(env, pos')]_vars
    /\ [][env = LoopGame => ~(pc = "episode" /\ pc' # "episode")]_vars

\* C16 witness: an episode of the longest single-path game has returned at the victory
C16_Witness ==
    /\ env.kind = "path" /\ env.len = MaxPathLen
    /\ last.op = "episode_done" /\ victory(env, pos)

\* C17: while learn_from_episode runs and the Oracle reports game over or victory,
\* the Oracle is not stepped and nothing is put; the table has no entry under the
\* canonical string of a terminal position; and the put of the step that reached the
\* terminal position holds Q + alpha * (reward - Q).
C17_NoLearningFromTerminal ==
    [][/\ (pc = "episode" /\ (game_over(env, pos) \/ victory(env, pos)))
            => pos' = pos /\ score' = score /\ V' = V /\ nsteps' = nsteps
       /\ \A p \in Positions(env) :
             (game_over(env, p) \/ victory(env, p)) => Canonical[env][p] \notin DOMAIN V'
       /\ (LearnStep /\ (game_over(env, pos') \/ victory(env, pos')))
            => get_sa_value(V', last'.state, last'.action)
                 = RAdd(last'.Q_sa,
                        RMul(alpha, RSub(RInt(last'.reward), last'.Q_sa)))]_vars

\* C17 witness: a step into the loss with reward 1 and alpha = 1/2 wrote 1/2
C17_Witness ==
    /\ pc = "episode" /\ game_over(env, pos) /\ last.op = "learn"
    /\ alpha = Half /\ last.reward = 1 /\ last.Q_sa = Zero
    /\ get_sa_value(V, last.state, last.action) = Half

\* where the Oracle is after the first k actions of its walkthrough, from a reset
RECURSIVE WalkthroughPos(_, _)
WalkthroughPos(g, k) ==
    IF k = 0 THEN 0
    ELSE CHOOSE p \in Positions(g) :
             \E o \in OracleStep(g, WalkthroughPos(g, k - 1), OracleWalkthrough(g)[k]) :
                 o[1] = p

\* the numbers of walkthrough actions after which the Oracle reports the end
WalkthroughEnds(g) ==
    {k \in 0..Len(OracleWalkthrough(g)) :
        game_over(g, WalkthroughPos(g, k)) \/ victory(g, WalkthroughPos(g, k))}

\* the score of a single-path game at its victory
RECURSIVE PathScore(_)
PathScore(k) == IF k = 0 THEN 0 ELSE PathReward(k - 1) + PathScore(k - 1)

Recorded(Vt) == UNION {{<<s, a>> : a \in DOMAIN Vt[s]} : s \in DOMAIN Vt}

\* C19: no step removes a recorded state or a recorded (state, action) pair, and a
\* learn_from_action that takes action a in canonical state s leaves get(s', a') of
\* every other pair as it was and adds no pair but (s, a).
C19_TableOnlyGrows ==
    [][/\ DOMAIN V \subseteq DOMAIN V'
       /\ Recorded(V) \subseteq Recorded(V')
       /\ LearnStep =>
             /\ \A s \in AllStates \cup DOMAIN V \cup DOMAIN V', a \in AllActions :
                    <<s, a>> # <<last'.state, last'.action>>
                       => get_sa_value(V', s, a) = get_sa_value(V, s, a)
             /\ Recorded(V') \subseteq Recorded(V) \cup {<<last'.state, last'.action>>}
       /\ ~LearnStep => V' = V]_vars

\* C19 witness: a learning step has just given a state its second action, in a table
\* of two states
C19_Witness ==
    /\ last.op = "learn"
    /\ Cardinality(DOMAIN V) = 2
    /\ Cardinality(DOMAIN V[last.state]) = 2
    /\ last.Q_sa = Zero
    /\ \E a \in DOMAIN V[last.state] : a # last.action /\ V[last.state][a] # Zero

\* C20: in every reachable state every state of the table has an entry in the
\* valid-action cache and every action recorded for it is in that entry; the candidate
\* list of get_best_action is not empty in any cached state, and no get_best_action
\* call has failed.
C20_RecordedActionsAreCached ==
    /\ \A s \in DOMAIN V :
          /\ s \in DOMAIN valid_actions
          /\ DOMAIN V[s] \subseteq Range(valid_actions[s])
    /\ \A s \in DOMAIN valid_actions : get_best_action(V, valid_actions[s], s) # {}
    /\ last.op # "raise"
    /\ last.ret # <<"IndexError", "random.choice">>

\* C20 witness: get_best_action answered in a state whose recorded values are all
\* negative and which has a valid action without entry
C20_Witness ==
    /\ last.best # ""
    /\ last.state \in DOMAIN V
    /\ RLess(get_max_state_value(V, last.state), Zero)
    /\ \E a \in Range(valid_actions[last.state]) : a \notin DOMAIN V[last.state]

====
